---- MODULE Spec2Model ----
(***************************************************************************)
(* The question/answer search engine of qamodel/demo/qajupyter.ipynb:     *)
(* QAEmbedder (batched embedding with masked mean pooling), QASearcher    *)
(* (the stored context and the cosine-similarity lookup) and the two      *)
(* FastAPI handlers that share one module-level QASearcher.               *)
(*                                                                         *)
(* Numbers.  The transformer is an external collaborator; it is modelled  *)
(* by a table of integer token vectors (last_hidden_state).  Pooled       *)
(* vectors are integers and unit vectors are fixed point with One as 1.0; *)
(* the table is chosen so that every division of the pooling and of the   *)
(* normalisation is exact, hence the arithmetic below is the exact-real   *)
(* arithmetic of the code, without floating-point rounding.               *)
(***************************************************************************)
EXTENDS Integers, Sequences, FiniteSets, TLC

VARIABLES
    questions,            \* QASearcher.questions
    answers,              \* QASearcher.answers
    question_embeddings,  \* QASearcher.question_embeddings (D x N, transposed)
    call,                 \* the last call made: its name and arguments
    response,             \* what the last call returned (<<>> if it raised)
    raised,               \* the exception the last call raised, or NoError
    given,                \* arguments of the latest set_context_qa call, and
                          \* whether a context had been given before it
    handlers,             \* position of each request handler coroutine
    writer,               \* which set_context_qa call last assigned each field
    nCalls,               \* number of set_context_qa calls run by the service
    reads                 \* writers of the fields the last get_answer request read

index == <<questions, answers, question_embeddings>>
observed == <<call, response, raised>>
history == <<given>>
service == <<handlers, writer, nCalls, reads>>
vars == <<questions, answers, question_embeddings, call, response, raised, given,
          handlers, writer, nCalls, reads>>

(***************************************************************************)
(* Bounds of the model.                                                    *)
(***************************************************************************)
MaxCtx == 2        \* longest questions / answers list given to set_context_qa
MaxQueries == 2    \* longest list of new questions given to get_answers
MaxBatch == 2      \* largest explicit batch argument
MaxTexts == 4      \* longest list given to get_embeddings on its own
MaxCalls == 3      \* set_context requests the service runs
NumHandlers == 2   \* request handlers in flight at once

(***************************************************************************)
(* Values.                                                                 *)
(***************************************************************************)
None == <<"None">>                    \* Python's None, where a list or a tensor may stand
NoError == "NoError"
NonStr == "<5>"                       \* a JSON item that is not a string
Strs == {"q1", "q2"}
DefaultBatch == 32
One == 5

RECURSIVE SeqsOfLen(_, _)
SeqsOfLen(S, n) ==
    IF n = 0 THEN {<<>>} ELSE {Append(s, a) : s \in SeqsOfLen(S, n - 1), a \in S}
SeqsUpTo(S, n) == UNION {SeqsOfLen(S, k) : k \in 0..n}
\* the lists of strings of at most n items, and those lists with an item that
\* is not a string at their end
ItemLists(n) ==
    SeqsUpTo(Strs, n) \cup {Append(s, NonStr) : s \in SeqsUpTo(Strs, n - 1)}
Min(a, b) == IF a < b THEN a ELSE b

RECURSIVE SumTo(_, _)
SumTo(f, n) == IF n = 0 THEN 0 ELSE f[n] + SumTo(f, n - 1)
Sum(f) == SumTo(f, Len(f))

RECURSIVE cat(_)
\* torch.cat(list, dim=0) of a non-empty list of matrices
cat(ms) == IF Len(ms) = 0 THEN <<>> ELSE Head(ms) \o cat(Tail(ms))

(***************************************************************************)
(* The external model: tokenizer and transformer.                          *)
(***************************************************************************)
\* last_hidden_state of the real tokens of a text
Hidden(text) ==
    CASE text = "q1" -> << <<3, 4>> >>
      [] text = "q2" -> << <<10, 0>>, <<-2, 6>> >>
\* last_hidden_state at a padding position (masked out by the pooling)
PadHidden == <<7, -7>>

NumTokens(text) == Len(Hidden(text))

\* tokenizer(chunk, padding=True, truncation=True, return_tensors='pt')
tokenizer(chunk) ==
    IF \E i \in 1..Len(chunk) : chunk[i] \notin Strs
    THEN [raised |-> "TokenizerError", input |-> chunk, attention_mask |-> <<>>]
    ELSE LET lengths == {NumTokens(chunk[i]) : i \in 1..Len(chunk)}
             \* padding=True pads to the longest sequence of the chunk
             width == CHOOSE w \in lengths : \A l \in lengths : l <= w
         IN [raised |-> NoError,
             input |-> chunk,
             attention_mask |->
                 [i \in 1..Len(chunk) |->
                     [t \in 1..width |-> IF t <= NumTokens(chunk[i]) THEN 1 ELSE 0]]]

\* self.model(**encoded_input)[0]: one vector per token position
model(encoded_input) ==
    [i \in 1..Len(encoded_input.input) |->
        [t \in 1..Len(encoded_input.attention_mask[i]) |->
            IF encoded_input.attention_mask[i][t] = 1
            THEN Hidden(encoded_input.input[i])[t]
            ELSE PadHidden]]

(***************************************************************************)
(* QAEmbedder                                                              *)
(***************************************************************************)
\* torch.clamp(x, min=1e-9) of a count of tokens
clamp(n) == IF n < 1 THEN 1 ELSE n

\* mean pooling that forgets the attention mask: the plain mean over the padded
\* width of the chunk
mean_pooling_unmasked(token_embeddings, attention_mask) ==
    [i \in 1..Len(token_embeddings) |->
        LET T == Len(token_embeddings[i])
            D == Len(PadHidden)
        IN [d \in 1..D |->
               Sum([t \in 1..T |-> token_embeddings[i][t][d]]) \div clamp(T)]]

mean_pooling(token_embeddings, attention_mask) ==
    [i \in 1..Len(token_embeddings) |->
        LET T == Len(token_embeddings[i])
            D == Len(PadHidden)
            total == [d \in 1..D |->
                        Sum([t \in 1..T |->
                              token_embeddings[i][t][d] * attention_mask[i][t]])]
            count == clamp(Sum(attention_mask[i]))
        IN [d \in 1..D |-> total[d] \div count]]

NumChunks(n, b) == (n + b - 1) \div b
\* questions[i:i+batch] for the k-th value of i in range(0, len(questions), batch)
Chunk(qs, b, k) == SubSeq(qs, (k - 1) * b + 1, Min(k * b, Len(qs)))

\* get_embeddings that returns from inside its loop: the first chunk only
get_embeddings_first_chunk(qs, b) ==
    LET enc == tokenizer(Chunk(qs, b, 1))
    IN IF Len(qs) = 0
       THEN [raised |-> "RuntimeError", value |-> <<>>]
       ELSE IF enc.raised # NoError
       THEN [raised |-> "TokenizerError", value |-> <<>>]
       ELSE [raised |-> NoError,
             value |-> mean_pooling(model(enc), enc.attention_mask)]

\* get_embeddings that swallows the error of a chunk and goes on with the next:
\* the chunks the tokenizer rejects are missing from the result
get_embeddings_skip_failed(qs, b) ==
    LET n == NumChunks(Len(qs), b)
        enc == [k \in 1..n |-> tokenizer(Chunk(qs, b, k))]
        kept[k \in 0..n] ==
            IF k = 0 THEN <<>>
            ELSE IF enc[k].raised # NoError THEN kept[k - 1]
            ELSE kept[k - 1] \o mean_pooling(model(enc[k]), enc[k].attention_mask)
    IN IF kept[n] = <<>>
       THEN [raised |-> "RuntimeError", value |-> <<>>]
       ELSE [raised |-> NoError, value |-> kept[n]]

\* question_embeddings is the list the loop fills; the loop stops at the first
\* chunk the tokenizer rejects, and torch.cat raises on an empty list
get_embeddings(qs, b) ==
    LET n == NumChunks(Len(qs), b)
        enc == [k \in 1..n |-> tokenizer(Chunk(qs, b, k))]
        question_embeddings_list ==
            [k \in 1..n |-> mean_pooling(model(enc[k]), enc[k].attention_mask)]
    IN IF \E k \in 1..n : enc[k].raised # NoError
       THEN [raised |-> "TokenizerError", value |-> <<>>]
       ELSE IF n = 0
       THEN [raised |-> "RuntimeError", value |-> <<>>]   \* torch.cat of an empty list
       ELSE [raised |-> NoError, value |-> cat(question_embeddings_list)]

(***************************************************************************)
(* QASearcher                                                              *)
(***************************************************************************)
IsSquareRoot(r, n) == r * r <= n /\ (r + 1) * (r + 1) > n
Abs(x) == IF x < 0 THEN -x ELSE x
Norm(v) == LET n == Sum([d \in 1..Len(v) |-> v[d] * v[d]])
           IN CHOOSE r \in 0..Sum([d \in 1..Len(v) |-> Abs(v[d])]) : IsSquareRoot(r, n)

\* torch.nn.functional.normalize(m, p=2, dim=1): v / max(||v||, eps) for each row
normalize(m) ==
    [i \in 1..Len(m) |->
        IF Norm(m[i]) = 0 THEN m[i]
        ELSE [d \in 1..Len(m[i]) |-> (m[i][d] * One) \div Norm(m[i])]]

\* m.transpose(0, 1) of a matrix with at least one row
transpose(m) == [d \in 1..Len(m[1]) |-> [i \in 1..Len(m) |-> m[i][d]]]

\* torch.mm(a, b)
mm(a, b) ==
    [i \in 1..Len(a) |->
        [j \in 1..Len(b[1]) |-> Sum([d \in 1..Len(b) |-> a[i][d] * b[d][j]])]]

\* an argmax that returns the last maximal value
argmax_last(row) ==
    CHOOSE k \in 1..Len(row) :
        /\ \A j \in 1..Len(row) : row[j] <= row[k]
        /\ \A j \in (k + 1)..Len(row) : row[j] < row[k]

\* row.argmax(): the index of the first maximal value
argmax(row) ==
    CHOOSE k \in 1..Len(row) :
        /\ \A j \in 1..Len(row) : row[j] <= row[k]
        /\ \A j \in 1..(k - 1) : row[j] < row[k]

get_q_embeddings(qs) ==
    LET e == get_embeddings(qs, DefaultBatch)
    IN IF e.raised # NoError THEN e
       ELSE [raised |-> NoError, value |-> transpose(normalize(e.value))]

\* the first two statements of cosine_similarity: the new questions embedded
\* and normalised
embed_new_questions(qs, b) ==
    LET e == get_embeddings(qs, b)
    IN IF e.raised # NoError THEN e
       ELSE [raised |-> NoError, value |-> normalize(e.value)]

\* embed_new_questions depends on its arguments alone: its values, tabulated
NewEmbedded ==
    [qs \in ItemLists(MaxQueries), b \in 1..MaxBatch |-> embed_new_questions(qs, b)]

\* a product that takes a missing context for an empty one: no row, no error
similarity_to_context_empty(x) ==
    IF question_embeddings = None
    THEN [raised |-> NoError, value |-> <<>>]
    ELSE [raised |-> NoError, value |-> mm(x, question_embeddings)]

\* torch.mm(x, self.question_embeddings): a TypeError when the context is None
similarity_to_context(x) ==
    IF question_embeddings = None
    THEN [raised |-> "TypeError", value |-> <<>>]
    ELSE [raised |-> NoError, value |-> mm(x, question_embeddings)]

\* reads: the fields of the searcher the call has read when it ends
cosine_similarity(qs, b) ==
    LET e == NewEmbedded[qs, b]
        cosine_sim == similarity_to_context(e.value)
    IN IF e.raised # NoError
       THEN [raised |-> e.raised, value |-> <<>>, reads |-> {}]
       ELSE [raised |-> cosine_sim.raised, value |-> cosine_sim.value,
             reads |-> {"question_embeddings"}]

\* a record whose answer is always the first stored one
Record_first_answer(qs, i, best_ix) ==
    [orig_q |-> qs[i], best_q |-> questions[best_ix], best_a |-> answers[1]]

\* the dict appended to the response for query i, whose best index is best_ix
Record(qs, i, best_ix) ==
    [orig_q |-> qs[i], best_q |-> questions[best_ix], best_a |-> answers[best_ix]]

RECURSIVE answer_loop(_, _, _, _, _)
\* the loop of get_answers from row i on, resp being the response so far
answer_loop(qs, similarity, i, resp, rd) ==
    IF i > Len(similarity)
    THEN [raised |-> NoError, response |-> resp, reads |-> rd]
    ELSE LET best_ix == argmax(similarity[i])
         IN IF best_ix > Len(questions)
            THEN [raised |-> "IndexError", response |-> <<>>,
                  reads |-> rd \cup {"questions"}]
            ELSE IF best_ix > Len(answers)
            THEN [raised |-> "IndexError", response |-> <<>>,
                  reads |-> rd \cup {"questions", "answers"}]
            ELSE answer_loop(qs, similarity, i + 1,
                             Append(resp, Record(qs, i, best_ix)),
                             rd \cup {"questions", "answers"})

get_answers(qs, b) ==
    LET s == cosine_similarity(qs, b)
    IN IF s.raised # NoError
       THEN [raised |-> s.raised, response |-> <<>>, reads |-> s.reads]
       ELSE answer_loop(qs, s.value, 1, <<>>, s.reads)

\* get_q_embeddings, tabulated
ContextEmbedded == [qs \in ItemLists(MaxCtx) |-> get_q_embeddings(qs)]

\* a set_context_qa that extends the stored context instead of replacing it
set_context_qa_extend(qs, ans) ==
    LET all_q == IF questions = None THEN qs ELSE questions \o qs
        e == get_q_embeddings(all_q)
    IN /\ answers' = IF answers = None THEN ans ELSE answers \o ans
       /\ questions' = all_q
       /\ question_embeddings' =
              IF e.raised = NoError THEN e.value ELSE question_embeddings
       /\ raised' = e.raised

set_context_qa(qs, ans) ==
    LET e == ContextEmbedded[qs]
    IN /\ answers' = ans
       /\ questions' = qs
       /\ question_embeddings' =
              IF e.raised = NoError THEN e.value ELSE question_embeddings
       /\ raised' = e.raised

(***************************************************************************)
(* The searcher used as an object: any sequence of calls.                  *)
(***************************************************************************)
QuestionLists == ItemLists(MaxCtx)
\* answer lists <<"a1", "a2", ..>> and <<"b1", "b2", ..>> of every length
AnswerTexts == {<<"a1", "a2", "a3", "a4">>, <<"b1", "b2", "b3", "b4">>}
AnswerLists == {SubSeq(t, 1, n) : t \in AnswerTexts, n \in 0..MaxCtx}
QueryLists == ItemLists(MaxQueries)
Batches == 1..MaxBatch

\* QASearcher.__init__ and the idle service
Constructed ==
    /\ answers = None
    /\ questions = None
    /\ question_embeddings = None
    /\ response = <<>>
    /\ raised = NoError
    /\ given = [questions |-> None, answers |-> None, replaces |-> FALSE, any |-> FALSE]
    /\ handlers = [h \in 1..NumHandlers |-> "idle"]
    /\ writer = [questions |-> 0, answers |-> 0, question_embeddings |-> 0]
    /\ nCalls = 0
    /\ reads = {}

Init ==
    /\ Constructed
    /\ call = [op |-> "__init__", questions |-> <<>>, answers |-> <<>>, batch |-> 0]

Given(qs, ans) ==
    given' = [questions |-> qs, answers |-> ans, replaces |-> given.any, any |-> TRUE]

SetContextCall(qs, ans) ==
    /\ set_context_qa(qs, ans)
    /\ Given(qs, ans)
    /\ call' = [op |-> "set_context_qa", questions |-> qs, answers |-> ans, batch |-> 0]
    /\ response' = <<>>
    /\ UNCHANGED service

\* get_answers whose cosine_similarity assigns the embeddings of the new
\* questions to self.question_embeddings instead of a local variable
GetAnswersCall_stores_queries(qs, b) ==
    LET r == get_answers(qs, b)
        e == NewEmbedded[qs, b]
    IN /\ response' = r.response
       /\ raised' = r.raised
       /\ call' = [op |-> "get_answers", questions |-> qs, answers |-> <<>>, batch |-> b]
       /\ question_embeddings' =
              IF e.raised = NoError THEN transpose(e.value) ELSE question_embeddings
       /\ UNCHANGED <<questions, answers, history, service>>

GetAnswersCall(qs, b) ==
    LET r == get_answers(qs, b)
    IN /\ response' = r.response
       /\ raised' = r.raised
       /\ call' = [op |-> "get_answers", questions |-> qs, answers |-> <<>>, batch |-> b]
       /\ UNCHANGED <<index, history, service>>

SetContext == \E qs \in QuestionLists, ans \in AnswerLists : SetContextCall(qs, ans)
GetAnswers == \E qs \in QueryLists, b \in Batches : GetAnswersCall(qs, b)

Next == SetContext \/ GetAnswers
Spec == Init /\ [][Next]_vars

(***************************************************************************)
(* The FastAPI service.  uvicorn runs both handlers as coroutines of one   *)
(* event loop on the one module-level qa_search: a handler is suspended at *)
(* "await data.json()" and, once resumed, runs its call on the searcher to *)
(* the end, since that call contains no await.                             *)
(***************************************************************************)
\* a request arrives: its handler starts and waits for the body
Receive(h, kind) ==
    /\ handlers[h] = "idle"
    /\ handlers' = [handlers EXCEPT ![h] = kind]
    /\ UNCHANGED <<index, observed, history, writer, nCalls, reads>>

\* POST /set_context, from the body on
set_context(h, data) ==
    /\ handlers[h] = "set_context"
    /\ nCalls < MaxCalls
    /\ set_context_qa(data.questions, data.answers)
    /\ Given(data.questions, data.answers)
    /\ call' = [op |-> "set_context", questions |-> data.questions,
                answers |-> data.answers, batch |-> 0]
    /\ response' = IF raised' = NoError THEN <<"Search context set">> ELSE <<>>
    /\ nCalls' = nCalls + 1
    /\ writer' = [questions |-> nCalls + 1,
                  answers |-> nCalls + 1,
                  question_embeddings |->
                      IF raised' = NoError THEN nCalls + 1
                      ELSE writer.question_embeddings]
    /\ reads' = {}
    /\ handlers' = [handlers EXCEPT ![h] = "idle"]

\* POST /get_answer, from the body on
get_answer(h, data) ==
    LET r == get_answers(data.questions, 1)
    IN /\ handlers[h] = "get_answer"
       /\ response' = r.response
       /\ raised' = r.raised
       /\ call' = [op |-> "get_answer", questions |-> data.questions,
                   answers |-> <<>>, batch |-> 1]
       /\ reads' = {writer[f] : f \in r.reads}
       /\ handlers' = [handlers EXCEPT ![h] = "idle"]
       /\ UNCHANGED <<index, history, writer, nCalls>>

ReceiveRequest ==
    \E h \in 1..NumHandlers, kind \in {"set_context", "get_answer"} : Receive(h, kind)
RunSetContext ==
    \E h \in 1..NumHandlers, qs \in QuestionLists, ans \in AnswerLists :
        set_context(h, [questions |-> qs, answers |-> ans])
RunGetAnswer ==
    \E h \in 1..NumHandlers, qs \in QueryLists : get_answer(h, [questions |-> qs])

NextService == ReceiveRequest \/ RunSetContext \/ RunGetAnswer
SpecService == Init /\ [][NextService]_vars

(***************************************************************************)
(* QAEmbedder.get_embeddings on its own, on every list and batch size.     *)
(***************************************************************************)
InitEmbed ==
    /\ Constructed
    /\ call \in {[op |-> "argument", questions |-> qs, answers |-> <<>>, batch |-> b] :
                    qs \in ItemLists(MaxTexts), b \in 1..MaxBatch}

\* embedder.get_embeddings(questions, batch)
Embed ==
    LET e == get_embeddings(call.questions, call.batch)
    IN /\ call.op = "argument"
       /\ call' = [call EXCEPT !.op = "get_embeddings"]
       /\ response' = e.value
       /\ raised' = e.raised
       /\ UNCHANGED <<index, history, service>>

NextEmbed == Embed
SpecEmbed == InitEmbed /\ [][NextEmbed]_vars

(***************************************************************************)
(* Properties                                                              *)
(***************************************************************************)
IsSet == question_embeddings # None
NumEntries == Len(question_embeddings[1])
Range(f) == {f[i] : i \in 1..Len(f)}

\* C1: a set_context_qa call whose questions and answers differ in length
\* fails, and the stored questions, answers and embeddings stay what they were.
C1_MismatchRejected ==
    [][\A qs \in QuestionLists, ans \in AnswerLists :
          (Len(qs) # Len(ans) /\ SetContextCall(qs, ans))
              => (raised' # NoError /\ UNCHANGED index)]_vars

C3_EmptyContextLegal ==
    /\ (call.op = "set_context_qa" /\ call.questions = <<>> /\ call.answers = <<>>)
           => (raised = NoError /\ IsSet /\ NumEntries = 0)
    /\ (call.op = "get_answers" /\ given.any /\ given.questions = <<>>
           /\ given.answers = <<>>)
           => (raised # NoError /\ response = <<>>)

\* C4: replacement is total: every record a get_answers call returns carries a
\* question and an answer of the context given by the latest set_context_qa
\* call, whatever was given before it.
C4_ReplacementTotal ==
    call.op = "get_answers" =>
        \A i \in 1..Len(response) :
            /\ response[i].best_q \in Range(given.questions)
            /\ response[i].best_a \in Range(given.answers)

\* C4 witness: records are returned after a context has replaced an earlier
\* one, the stored embeddings being those of the replacing context.
C4_Witness ==
    /\ call.op = "get_answers"
    /\ given.replaces
    /\ raised = NoError
    /\ Len(response) = 2
    /\ question_embeddings = ContextEmbedded[questions].value

\* C5: every get_answer request computes its result from fields that one and
\* the same set_context request (or the constructor) assigned.
C5_SingleSnapshot ==
    call.op = "get_answer" => Cardinality(reads) <= 1

\* C6: whenever the index is set, the stored questions, answers and embeddings
\* have the same length.
C6_ParallelLengths ==
    IsSet => (Len(questions) = Len(answers) /\ Len(answers) = NumEntries)

\* C7: a get_answers call that does not fail returns one record per new
\* question, record i carrying new question i, whatever the batch size.
C7_OrderPreserved ==
    (call.op = "get_answers" /\ raised = NoError) =>
        /\ Len(response) = Len(call.questions)
        /\ \A i \in 1..Len(response) : response[i].orig_q = call.questions[i]

\* C7 witness: two different new questions are answered one chunk at a time.
C7_Witness ==
    /\ call.op = "get_answers"
    /\ raised = NoError
    /\ Len(call.questions) = 2
    /\ call.batch = 1
    /\ call.questions[1] # call.questions[2]
    /\ Len(response) = 2

\* the similarity of new question i of the last call to every stored entry
SimilarityRow(i) == cosine_similarity(call.questions, call.batch).value[i]
IsMaximal(row, k) == \A j \in 1..Len(row) : row[j] <= row[k]

\* C8: among the entries of maximal similarity the one of lowest index is
\* returned, and equal new questions get equal records.
C8_TieBreakLowest ==
    (call.op = "get_answers" /\ raised = NoError) =>
        \A i \in 1..Len(response) :
            /\ \E k \in 1..Len(SimilarityRow(i)) :
                  /\ IsMaximal(SimilarityRow(i), k)
                  /\ \A j \in 1..(k - 1) : ~IsMaximal(SimilarityRow(i), j)
                  /\ response[i].best_q = questions[k]
                  /\ response[i].best_a = answers[k]
            /\ \A j \in 1..Len(response) :
                  call.questions[i] = call.questions[j] => response[i] = response[j]

\* C8 witness: a query is answered whose similarity is maximal at two entries
\* that store different answers.
C8_Witness ==
    /\ call.op = "get_answers"
    /\ raised = NoError
    /\ Len(response) >= 1
    /\ \E j, k \in 1..Len(SimilarityRow(1)) :
          /\ j < k
          /\ IsMaximal(SimilarityRow(1), j)
          /\ IsMaximal(SimilarityRow(1), k)
          /\ k <= Len(answers)
          /\ answers[j] # answers[k]

\* C9: every record pairs the question and the answer stored at one position,
\* and no entry is strictly more similar to the query than that position.
C9_PairAtArgmax ==
    (call.op = "get_answers" /\ raised = NoError) =>
        \A i \in 1..Len(response) :
            \E k \in 1..Min(Len(questions), Len(answers)) :
                /\ k <= Len(SimilarityRow(i))
                /\ response[i].best_q = questions[k]
                /\ response[i].best_a = answers[k]
                /\ IsMaximal(SimilarityRow(i), k)

\* C9 witness: the best entry of a query is the second of two different
\* stored pairs.
C9_Witness ==
    /\ call.op = "get_answers"
    /\ raised = NoError
    /\ Len(questions) = 2
    /\ Len(answers) = 2
    /\ questions[1] # questions[2]
    /\ Len(response) >= 1
    /\ response[1].best_q = questions[2]
    /\ response[1].best_a = answers[2]

\* C10: the chunks are the consecutive slices of at most batch texts; a
\* non-empty list of strings is embedded without error into one vector per
\* text, the same vectors as one unbatched call and as one call per text.
C10_BatchInvariance ==
    LET texts == call.questions
        b == call.batch
        n == NumChunks(Len(texts), b)
    IN call.op = "get_embeddings" =>
        /\ cat([k \in 1..n |-> Chunk(texts, b, k)]) = texts
        /\ \A k \in 1..n : Len(Chunk(texts, b, k)) \in 1..b
        /\ (Len(texts) > 0 /\ Range(texts) \subseteq Strs) =>
              /\ raised = NoError
              /\ Len(response) = Len(texts)
              /\ response = get_embeddings(texts, Len(texts)).value
              /\ response = get_embeddings(texts, 1).value
              /\ \A i \in 1..Len(texts) :
                    response[i] = get_embeddings(<<texts[i]>>, 1).value[1]

\* C10 witness: three texts embedded two at a time, the first chunk holding
\* texts of different token counts, so that one of them is padded.
C10_Witness ==
    /\ call.op = "get_embeddings"
    /\ raised = NoError
    /\ Len(call.questions) = 3
    /\ call.batch = 2
    /\ NumTokens(call.questions[1]) # NumTokens(call.questions[2])
    /\ Len(response) = 3

\* C11: get_embeddings of an empty list of texts raises nothing and returns an
\* empty sequence of vectors, whatever the positive batch size.
C11_EmptyListEmbeds ==
    (call.op = "get_embeddings" /\ call.questions = <<>>)
        => (raised = NoError /\ response = <<>>)

\* C12: a set_context_qa call whose embedding step fails leaves the stored
\* questions, answers and embeddings those of the previous context.
C12_FailedEmbeddingKeepsIndex ==
    [][\A qs \in QuestionLists, ans \in AnswerLists :
          (SetContextCall(qs, ans) /\ ContextEmbedded[qs].raised # NoError)
              => UNCHANGED index]_vars

\* a chunk of the last call's list that the tokenizer rejects
FailingChunk(k) == tokenizer(Chunk(call.questions, call.batch, k)).raised # NoError

\* C13: a get_answers call one of whose chunks fails to embed raises and
\* returns no record, and no get_answers call returns fewer records than it
\* was given new questions: it raises without a record or returns them all.
C13_NoSilentDegradation ==
    call.op = "get_answers" =>
        /\ (\E k \in 1..NumChunks(Len(call.questions), call.batch) : FailingChunk(k))
               => (raised # NoError /\ response = <<>>)
        /\ Len(response) < Len(call.questions)
               => (raised # NoError /\ response = <<>>)

\* C13 witness: on a set index two new questions are asked one per chunk; the
\* first chunk embeds and the second one fails, and no record is returned.
C13_Witness ==
    /\ call.op = "get_answers"
    /\ IsSet
    /\ NumEntries >= 1
    /\ Len(call.questions) = 2
    /\ call.batch = 1
    /\ ~FailingChunk(1)
    /\ FailingChunk(2)
    /\ raised = "TokenizerError"
    /\ response = <<>>

\* C14: a step that is a get_answers call, returning or raising, leaves the
\* stored questions, answers and embeddings as they were; a step that changes
\* one of them is a set_context_qa call.
C14_GetAnswersReadOnly ==
    [][/\ call'.op = "get_answers" => UNCHANGED index
       /\ index' # index => call'.op = "set_context_qa"]_vars

\* C14 witness: get_answers has run on a set index and raised in the middle of
\* its loop, and the three fields are still those of the given context.
C14_Witness ==
    /\ call.op = "get_answers"
    /\ raised = "IndexError"
    /\ IsSet
    /\ questions = given.questions
    /\ answers = given.answers
    /\ question_embeddings = ContextEmbedded[given.questions].value

====
